---- MODULE Spec2Model ----
(***************************************************************************)
(* A sharded, leader-followed key-value store.                             *)
(*                                                                         *)
(*   app/shard.py        a shard node: WAL file, in-memory map, role-gated *)
(*                       write API, pull replication of a follower         *)
(*   app/coordinator.py  the router: topology map, hash ring, table        *)
(*                       registry, dispatch of writes and reads            *)
(*                                                                         *)
(* Spec      one shard group: a leader process and a follower process      *)
(* CoordSpec the coordinator's registrations and writes, the shards' HTTP  *)
(*           answers being inputs                                          *)
(* ReadSpec  all the coordinator's handlers over one shard group           *)
(***************************************************************************)
EXTENDS Integers, Sequences, FiniteSets, TLC

\* ------------------------------------------------------------------ bounds
MaxOffset  == 2     \* appends are accepted while current_offset < MaxOffset
MaxCrashes == 2     \* process crashes in one behaviour
MaxFails   == 1     \* failing disk writes in one behaviour

\* ------------------------------------------------------- shard: constants
Nodes  == {"L", "F"}            \* the two processes of one shard group
Keys   == {"k1", "k2"}
Values == {"v1"}
None   == "None"

\* shard.py:16  ROLE = os.getenv("ROLE", "leader")
ROLE == [n \in Nodes |-> IF n = "L" THEN "leader" ELSE "follower"]

\* shard.py:18  LEADER_URL = os.getenv("LEADER_URL", "")
LEADER_URL == [n \in Nodes |-> IF n = "F" THEN "L" ELSE ""]

VARIABLES
    up,              \* up[n]: the process of node n is running
    wal_file,        \* wal_file[n]: the bytes of WAL_FILE on n's disk
    current_offset,  \* wal.current_offset of n
    DATA_STORE,      \* the in-memory map of n: a dict key -> [val, ver]
    pc,              \* where the holder of wal.lock is: "idle" = lock free
    cur,             \* the entry built by the append in flight
    batch,           \* entries apply_batch has still to go through
    wbuf,            \* lines apply_batch wrote that the file object buffers
    resp,            \* the last answer of a shard HTTP handler
    acked,           \* acked[n]: entries whose append returned (history)
    crashes, fails   \* how many crashes / failed disk writes so far

shardVars == <<up, wal_file, current_offset, DATA_STORE, pc, cur, batch, wbuf,
               resp, acked, crashes, fails>>

\* ------------------------------------------------ shard: the WAL as bytes
\* A log entry (shard.py:69-75).  "ts" is written and never read: left out.
NullEntry == [offset |-> 0, op |-> "", key |-> "", value |-> ""]

MkEntry(off, op, key, value) ==
    [offset |-> off, op |-> op, key |-> key, value |-> value]

\* The text json.dumps(entry) gives, or (full = FALSE) a proper, non-empty
\* prefix of such a text: what a write cut short leaves behind.
Json(e) == [full |-> TRUE, e |-> e]
TornText == [full |-> FALSE, e |-> NullEntry]

\* The file: the newline-terminated lines, then the bytes after the last
\* newline.  A line is the sequence of texts written onto it.
EmptyFile == [lines |-> <<>>, tail |-> <<>>]

\* f.write(json.dumps(entry) + "\n") on a file opened with "a": the bytes go
\* after whatever the file ends with.
WriteLine(f, e) ==
    [lines |-> Append(f.lines, Append(f.tail, Json(e))), tail |-> <<>>]

RECURSIVE WriteLines(_, _)
WriteLines(f, es) ==
    IF es = <<>> THEN f ELSE WriteLines(WriteLine(f, Head(es)), Tail(es))

\* The files a write of the lines es can leave when it is cut short (the
\* process dies, or the disk refuses): some of the lines, then nothing, or a
\* prefix of the next line's text, or all of its text but the newline.
CutShort(f, es) ==
    UNION { LET g == WriteLines(f, SubSeq(es, 1, j)) IN
            { g,
              [g EXCEPT !.tail = Append(g.tail, TornText)],
              [g EXCEPT !.tail = Append(g.tail, Json(es[j + 1]))] }
          : j \in 0 .. Len(es) - 1 }

\* "for line in f": the terminated lines, then the unterminated rest if any.
FileLines(f) == IF f.tail = <<>> THEN f.lines ELSE Append(f.lines, f.tail)

\* json.loads(line): succeeds on exactly one complete JSON text (trailing
\* white space allowed); two texts on a line, or a prefix of one, raise.
json_loads_ok(line) == Len(line) = 1 /\ line[1].full
json_loads(line) == line[1].e

\* ------------------------------------------------- shard: WALManager code
EmptyStore == [k \in {} |-> NullEntry]

\* (a faulty variant: a DELETE entry leaves the key in the map)
KeepOnDelete(store, entry) ==
    IF entry.op = "PUT"
    THEN [k \in DOMAIN store \cup {entry.key} |->
            IF k = entry.key THEN [val |-> entry.value, ver |-> entry.offset]
            ELSE store[k]]
    ELSE store

\* WALManager._apply_entry (shard.py:86-96)
_apply_entry(store, entry) ==
    IF entry.op = "PUT"
    THEN [k \in DOMAIN store \cup {entry.key} |->
            IF k = entry.key THEN [val |-> entry.value, ver |-> entry.offset]
            ELSE store[k]]
    ELSE IF entry.op = "DELETE"
    THEN [k \in DOMAIN store \ {entry.key} |-> store[k]]
    ELSE store

\* WALManager.recover (shard.py:49-63) from the state __init__ leaves:
\* every line that parses is applied and sets current_offset; a line that
\* does not parse is skipped.
RECURSIVE RecoverLines(_, _)
RecoverLines(lines, st) ==
    IF lines = <<>> THEN st
    ELSE IF json_loads_ok(Head(lines))
    THEN LET entry == json_loads(Head(lines)) IN
         RecoverLines(Tail(lines),
                      [store |-> _apply_entry(st.store, entry),
                       off   |-> entry.offset])
    ELSE RecoverLines(Tail(lines), st)

recover(f) == RecoverLines(FileLines(f), [store |-> EmptyStore, off |-> 0])

\* WALManager.read_logs_since (shard.py:98-108): json.loads has no try
\* around it, so one line that does not parse makes the call raise.
RECURSIVE LogsSince(_, _)
LogsSince(lines, start_offset) ==
    IF lines = <<>> THEN <<>>
    ELSE LET e == json_loads(Head(lines)) IN
         (IF e.offset > start_offset THEN <<e>> ELSE <<>>)
            \o LogsSince(Tail(lines), start_offset)

read_logs_since_ok(f) ==
    \A i \in 1 .. Len(FileLines(f)) : json_loads_ok(FileLines(f)[i])
read_logs_since(f, start_offset) == LogsSince(FileLines(f), start_offset)

\* ----------------------------------------------------------- shard: Init
NoResp == [node |-> "", op |-> "", status |-> 0, offset |-> 0]

ShardInit ==
    /\ up = [n \in Nodes |-> TRUE]
    /\ wal_file = [n \in Nodes |-> EmptyFile]
    /\ current_offset = [n \in Nodes |-> 0]
    /\ DATA_STORE = [n \in Nodes |-> EmptyStore]
    /\ pc = [n \in Nodes |-> "idle"]
    /\ cur = [n \in Nodes |-> NullEntry]
    /\ batch = [n \in Nodes |-> <<>>]
    /\ wbuf = [n \in Nodes |-> <<>>]
    /\ resp = NoResp
    /\ acked = [n \in Nodes |-> {}]
    /\ crashes = 0
    /\ fails = 0

\* -------------------------------------------------------- shard: actions
\* The role test of write_data / delete_data (shard.py:183, 201).
\* (a faulty variant: the test left out)
RoleAllowsAnyone(n) == TRUE

RoleAllowsWrite(n) == ROLE[n] = "leader"

\* HTTPException(400, ...) of write_data / delete_data.
RejectWrite(n, op) ==
    /\ resp' = [node |-> n, op |-> op, status |-> 400, offset |-> 0]
    /\ UNCHANGED <<up, wal_file, current_offset, DATA_STORE, pc, cur, batch,
                   wbuf, acked, crashes, fails>>

\* "with self.lock" (shard.py:67, 112): threading.Lock lets one thread in;
\* a handler thread that finds it taken waits until it is released.
\* (a faulty variant: the lock never makes anyone wait)
LockNeverHeld(n) == TRUE

LockFree(n) == pc[n] = "idle"

\* WALManager.append, shard.py:67-75: take the lock, count the offset up,
\* build the entry.
AppendBegin(n, key, value, op) ==
    /\ LockFree(n)
    /\ current_offset[n] < MaxOffset
    /\ current_offset' = [current_offset EXCEPT ![n] = current_offset[n] + 1]
    /\ cur' = [cur EXCEPT ![n] = MkEntry(current_offset[n] + 1, op, key, value)]
    /\ pc' = [pc EXCEPT ![n] = "append_write"]
    /\ UNCHANGED <<up, wal_file, DATA_STORE, batch, wbuf, resp, acked,
                   crashes, fails>>

\* POST /storage/{key} (shard.py:181-187), up to the disk write.
write_data(n, key, value) ==
    /\ up[n]
    /\ IF RoleAllowsWrite(n) THEN AppendBegin(n, key, value, "PUT")
       ELSE RejectWrite(n, "PUT")

\* DELETE /storage/{key} (shard.py:199-205), up to the disk write.
delete_data(n, key) ==
    /\ up[n]
    /\ IF RoleAllowsWrite(n) THEN AppendBegin(n, key, None, "DELETE")
       ELSE RejectWrite(n, "DELETE")

\* WALManager.append, shard.py:78-80: open, write, flush.
AppendWrite(n) ==
    /\ up[n] /\ pc[n] = "append_write"
    /\ wal_file' = [wal_file EXCEPT ![n] = WriteLine(wal_file[n], cur[n])]
    /\ pc' = [pc EXCEPT ![n] = "append_apply"]
    /\ UNCHANGED <<up, current_offset, DATA_STORE, cur, batch, wbuf, resp,
                   acked, crashes, fails>>

\* The same lines when the disk refuses (OSError): the exception leaves the
\* with-block, which releases the lock, and the handler answers 500.
\* current_offset was counted up at line 68 and nothing counts it down.
AppendWriteFail(n) ==
    /\ up[n] /\ pc[n] = "append_write"
    /\ fails < MaxFails
    /\ \E g \in CutShort(wal_file[n], <<cur[n]>>) :
          wal_file' = [wal_file EXCEPT ![n] = g]
    /\ pc' = [pc EXCEPT ![n] = "idle"]
    /\ resp' = [node |-> n, op |-> cur[n].op, status |-> 500, offset |-> 0]
    /\ cur' = [cur EXCEPT ![n] = NullEntry]
    /\ fails' = fails + 1
    /\ UNCHANGED <<up, current_offset, DATA_STORE, batch, wbuf, acked, crashes>>

\* WALManager.append, shard.py:83-84, and the handler's return: apply to
\* memory, release the lock, answer with the offset.
AppendApply(n) ==
    /\ up[n] /\ pc[n] = "append_apply"
    /\ DATA_STORE' = [DATA_STORE EXCEPT ![n] = _apply_entry(DATA_STORE[n], cur[n])]
    /\ pc' = [pc EXCEPT ![n] = "idle"]
    /\ resp' = [node |-> n, op |-> cur[n].op, status |-> 200,
                offset |-> cur[n].offset]
    /\ acked' = [acked EXCEPT ![n] = acked[n] \cup {cur[n]}]
    /\ cur' = [cur EXCEPT ![n] = NullEntry]
    /\ UNCHANGED <<up, wal_file, current_offset, batch, wbuf, crashes, fails>>

\* replication_worker (shard.py:154-166), one tick whose pull is answered
\* 200 with a non-empty list: GET {LEADER_URL}/replication/log, then the
\* entry into apply_batch (lock taken, file opened).
ReplPull(n) ==
    /\ up[n] /\ LockFree(n)
    /\ ROLE[n] = "follower" /\ LEADER_URL[n] # ""
    /\ LET l == LEADER_URL[n] IN
       /\ up[l]
       /\ read_logs_since_ok(wal_file[l])
       /\ read_logs_since(wal_file[l], current_offset[n]) # <<>>
       /\ batch' = [batch EXCEPT ![n] =
                       read_logs_since(wal_file[l], current_offset[n])]
    /\ pc' = [pc EXCEPT ![n] = "batch"]
    /\ wbuf' = [wbuf EXCEPT ![n] = <<>>]
    /\ UNCHANGED <<up, wal_file, current_offset, DATA_STORE, cur, resp, acked,
                   crashes, fails>>

\* A tick that changes nothing: the leader is down, its endpoint answers 500
\* (read_logs_since raised), the request times out, or the list is empty.
ReplPullFail(n) ==
    /\ up[n] /\ pc[n] = "idle"
    /\ ROLE[n] = "follower" /\ LEADER_URL[n] # ""
    /\ UNCHANGED shardVars

\* The skip test of apply_batch (shard.py:115-116).
\* (a faulty variant: an entry at current_offset is not skipped)
SkipBelow(entry, offset) == entry.offset < offset

SkipEntry(entry, offset) == entry.offset <= offset

\* WALManager.apply_batch (shard.py:110-119), a call that runs to its end:
\* what it leaves of the file, the map and current_offset.
RECURSIVE apply_batch(_, _)
apply_batch(st, entries) ==
    IF entries = <<>> THEN st
    ELSE LET entry == Head(entries) IN
         IF SkipEntry(entry, st.off)
         THEN apply_batch(st, Tail(entries))
         ELSE apply_batch([file  |-> WriteLine(st.file, entry),
                           store |-> _apply_entry(st.store, entry),
                           off   |-> entry.offset],
                          Tail(entries))

\* WALManager.apply_batch, shard.py:114-119: one turn of the loop.  f.write
\* goes to the file object's buffer; the bytes reach the file when the
\* buffer is flushed, at the latest by the close at the end of the with.
BatchStep(n) ==
    /\ up[n] /\ pc[n] = "batch" /\ batch[n] # <<>>
    /\ LET entry == Head(batch[n]) IN
       IF SkipEntry(entry, current_offset[n])
       THEN UNCHANGED <<wbuf, DATA_STORE, current_offset>>
       ELSE /\ wbuf' = [wbuf EXCEPT ![n] = Append(wbuf[n], entry)]
            /\ DATA_STORE' = [DATA_STORE EXCEPT ![n] =
                                 _apply_entry(DATA_STORE[n], entry)]
            /\ current_offset' = [current_offset EXCEPT ![n] = entry.offset]
    /\ batch' = [batch EXCEPT ![n] = Tail(batch[n])]
    /\ UNCHANGED <<up, wal_file, pc, cur, resp, acked, crashes, fails>>

\* The end of apply_batch: the file is closed (its buffer written out) and
\* the lock released.
BatchClose(n) ==
    /\ up[n] /\ pc[n] = "batch" /\ batch[n] = <<>>
    /\ wal_file' = [wal_file EXCEPT ![n] = WriteLines(wal_file[n], wbuf[n])]
    /\ wbuf' = [wbuf EXCEPT ![n] = <<>>]
    /\ pc' = [pc EXCEPT ![n] = "idle"]
    /\ UNCHANGED <<up, current_offset, DATA_STORE, cur, batch, resp, acked,
                   crashes, fails>>

\* The same when the disk refuses the buffered bytes: the OSError reaches
\* replication_worker's except, which logs it.
BatchCloseFail(n) ==
    /\ up[n] /\ pc[n] = "batch" /\ batch[n] = <<>>
    /\ fails < MaxFails
    /\ \E g \in CutShort(wal_file[n], wbuf[n]) :
          wal_file' = [wal_file EXCEPT ![n] = g]
    /\ wbuf' = [wbuf EXCEPT ![n] = <<>>]
    /\ pc' = [pc EXCEPT ![n] = "idle"]
    /\ fails' = fails + 1
    /\ UNCHANGED <<up, current_offset, DATA_STORE, cur, batch, resp, acked,
                   crashes>>

\* The process dies.  What it held in memory is gone; a write it was in the
\* middle of is cut short.
Crash(n) ==
    /\ up[n]
    /\ crashes < MaxCrashes
    /\ \E g \in (CASE pc[n] = "append_write" ->
                        CutShort(wal_file[n], <<cur[n]>>)
                   [] pc[n] = "batch" ->
                        CutShort(wal_file[n], wbuf[n])
                            \cup {WriteLines(wal_file[n], wbuf[n])}
                   [] OTHER -> {wal_file[n]}) :
          wal_file' = [wal_file EXCEPT ![n] = g]
    /\ up' = [up EXCEPT ![n] = FALSE]
    /\ current_offset' = [current_offset EXCEPT ![n] = 0]
    /\ DATA_STORE' = [DATA_STORE EXCEPT ![n] = EmptyStore]
    /\ pc' = [pc EXCEPT ![n] = "idle"]
    /\ cur' = [cur EXCEPT ![n] = NullEntry]
    /\ batch' = [batch EXCEPT ![n] = <<>>]
    /\ wbuf' = [wbuf EXCEPT ![n] = <<>>]
    /\ crashes' = crashes + 1
    /\ UNCHANGED <<resp, acked, fails>>

\* The process starts: wal = WALManager(WAL_FILE) (shard.py:43-47, 121)
\* runs recover() before anything is served.
Restart(n) ==
    /\ ~up[n]
    /\ up' = [up EXCEPT ![n] = TRUE]
    /\ current_offset' = [current_offset EXCEPT ![n] = recover(wal_file[n]).off]
    /\ DATA_STORE' = [DATA_STORE EXCEPT ![n] = recover(wal_file[n]).store]
    /\ UNCHANGED <<wal_file, pc, cur, batch, wbuf, resp, acked, crashes, fails>>


\* ================================================== coordinator: constants
MaxPlaced == 2      \* stored records the history variable placed follows

ShardIds      == {"s1", "s2"}
Urls          == {"u1", "u2"}
Roles         == {"leader", "follower"}
Tables        == {"t1", "t2"}   \* table names in requests
CreatedTables == {"t1"}         \* the names POST /tables is called with
\* Keys are strings: sequences of characters.
PartitionKeys == {<<"a">>}
NoSortKey     == <<>>        \* sort_key None or "": both are falsy
SortKeys      == {NoSortKey, <<"x">>}
NoUrl         == "None"      \* group["leader"] = None
NoShard       == "None"      \* ring.get_node(...) = None

\* What a shard answers to a forwarded write: an HTTP status, or 0 when the
\* request fails in transport (httpx.HTTPError: refused, timed out).
WriteAnswers == {200, 500, 0}

\* What a shard answers to a forwarded GET or HEAD of a key: 200 with
\* {value, version}, 404, 500, or no answer (status 0).
MaxVersion == 2
NoBody == [value |-> "", version |-> 0]
ReadAnswers ==
    {[status |-> 200, body |-> [value |-> v, version |-> n]] :
        v \in {"v1", "v2"}, n \in 1 .. MaxVersion}
    \cup {[status |-> st, body |-> NoBody] : st \in {404, 500, 0}}

\* The answers drawn for the replicas of a single read (GET, HEAD) and of a
\* quorum read.
ChoiceAnswers ==
    {a \in ReadAnswers : a.body.value # "v2" /\ a.body.version <= 1}
QuorumAnswers ==
    {a \in ReadAnswers :
        /\ a.status \in {200, 404, 0}
        /\ ~(a.body.value = "v1" /\ a.body.version > 1)}
QuorumSizes == {1, 2}

VARIABLES
    SHARD_TOPOLOGY,  \* dict shard_id -> [leader, followers]
    ring,            \* the nodes of the HashRing
    TABLE_SCHEMAS,   \* the names in the table registry
    c_last,          \* the last client request and the coordinator's answer
    reg_last,        \* the last registration, if nothing came after it
    placed,          \* history: the records shards stored, where, under
                     \* which ring membership
    responses        \* history: what the replicas answered to the last read,
                     \* in request order

coordVars ==
    <<SHARD_TOPOLOGY, ring, TABLE_SCHEMAS, c_last, reg_last, placed, responses>>

\* ---------------------------------------------------- coordinator: helpers
\* The hash ring (uhashring.HashRing, coordinator.py:19): every node and
\* every key has a point on a circle of RingSize points; a key belongs to the
\* node whose point comes first at or after the key's.
RingSize == 8

CharCode(c) ==
    CASE c = "a" -> 1 [] c = "b" -> 4 [] c = "#" -> 3 [] c = "x" -> 7
      [] OTHER -> 5

RECURSIVE KeyPoint(_)
KeyPoint(key) ==
    IF key = <<>> THEN 0 ELSE (CharCode(Head(key)) + KeyPoint(Tail(key))) % RingSize

NodePoint(node) == IF node = "s1" THEN 2 ELSE 6

\* ring.get_node(key) (coordinator.py:51); None on an empty ring.
get_node(nodes, key) ==
    IF nodes = {} THEN NoShard
    ELSE CHOOSE n \in nodes : \A m \in nodes :
            (NodePoint(n) - KeyPoint(key)) % RingSize
                <= (NodePoint(m) - KeyPoint(key)) % RingSize

\* _get_storage_key (coordinator.py:62-63)
_get_storage_key(partition_key, sort_key) ==
    IF sort_key # <<>> THEN partition_key \o <<"#">> \o sort_key
    ELSE partition_key

\* (a faulty variant: routing by the storage key)
RouteByStorageKey(partition_key, sort_key) ==
    _get_storage_key(partition_key, sort_key)

\* The key the handlers hand to _get_topology (coordinator.py:96, 114, 129,
\* 154, 169): the partition key alone.
RoutingKey(partition_key, sort_key) == partition_key

NoTopology == [ok |-> FALSE, shard_id |-> NoShard, leader |-> NoUrl, replicas |-> <<>>]

\* _get_topology (coordinator.py:49-60); ok = FALSE stands for the
\* HTTPException(503, "No shards available").
_get_topology(partition_key) ==
    LET shard_id == get_node(ring, partition_key) IN
    IF shard_id = NoShard \/ shard_id \notin DOMAIN SHARD_TOPOLOGY
    THEN NoTopology
    ELSE LET group == SHARD_TOPOLOGY[shard_id] IN
         [ok |-> TRUE, shard_id |-> shard_id, leader |-> group.leader,
          replicas |-> SelectSeq(<<group.leader>> \o group.followers,
                                 LAMBDA r : r # NoUrl)]

InSeq(x, seq) == \E i \in 1 .. Len(seq) : seq[i] = x

\* (a faulty variant: the membership test left out)
AddFollowerAlways(followers, url) == Append(followers, url)

\* coordinator.py:77-78
AddFollower(followers, url) ==
    IF InSeq(url, followers) THEN followers ELSE Append(followers, url)

\* (a faulty variant: a leader registration starts the group afresh)
ResetGroupOnLeader(topology, shard_id, url, role) ==
    LET group == IF shard_id \in DOMAIN topology THEN topology[shard_id]
                 ELSE [leader |-> NoUrl, followers |-> <<>>]
        after == IF role = "leader" THEN [leader |-> url, followers |-> <<>>]
                 ELSE [group EXCEPT !.followers = AddFollower(group.followers, url)]
    IN  [s \in DOMAIN topology \cup {shard_id} |->
            IF s = shard_id THEN after ELSE topology[s]]

\* register_shard (coordinator.py:70-78) on the topology map ...
RegisterTopology(topology, shard_id, url, role) ==
    LET group == IF shard_id \in DOMAIN topology THEN topology[shard_id]
                 ELSE [leader |-> NoUrl, followers |-> <<>>]
        after == IF role = "leader" THEN [group EXCEPT !.leader = url]
                 ELSE [group EXCEPT !.followers = AddFollower(group.followers, url)]
    IN  [s \in DOMAIN topology \cup {shard_id} |->
            IF s = shard_id THEN after ELSE topology[s]]

\* ... and on the ring (coordinator.py:70-72).
RegisterRing(nodes, topology, shard_id) ==
    IF shard_id \notin DOMAIN topology THEN nodes \cup {shard_id} ELSE nodes

\* (a faulty variant: no table test)
AnyTable(table_name) == TRUE

\* coordinator.py:93  table_name in TABLE_SCHEMAS
TableKnown(table_name) == table_name \in TABLE_SCHEMAS

\* An answer of the coordinator.  upstream is the status the shard answered
\* with (0: transport failure, -1: no request was sent); sent lists the
\* requests forwarded to shards.
AnswerWith(op, table_name, pk, sk, status, detail, upstream, sent, body) ==
    [op |-> op, table |-> table_name, pk |-> pk, sk |-> sk, status |-> status,
     detail |-> detail, upstream |-> upstream, sent |-> sent, body |-> body,
     R |-> 0]

Answer(op, table_name, pk, sk, status, detail, upstream, sent) ==
    AnswerWith(op, table_name, pk, sk, status, detail, upstream, sent, NoBody)

NoAnswer == Answer("", "", <<>>, <<>>, 0, "", -1, <<>>)

Request(url, method, key) == [url |-> url, method |-> method, key |-> key]

\* resp.raise_for_status() (coordinator.py:105): raises unless 2xx ...
RaisesForStatus(status) == ~(status >= 200 /\ status <= 299)

\* write_record (coordinator.py:91-109): the answer to the client, the
\* leader answering `answer`.
WriteRecordResult(table_name, pk, sk, answer) ==
    IF ~TableKnown(table_name)
    THEN Answer("PUT", table_name, pk, sk, 404, "Table unknown", -1, <<>>)
    ELSE LET t == _get_topology(RoutingKey(pk, sk)) IN
         IF ~t.ok
         THEN Answer("PUT", table_name, pk, sk, 503, "No shards available", -1, <<>>)
         ELSE IF t.leader = NoUrl
         THEN Answer("PUT", table_name, pk, sk, 503, "no leader", -1, <<>>)
         ELSE LET sent == <<Request(t.leader, "POST", _get_storage_key(pk, sk))>> IN
              IF answer = 0 \/ RaisesForStatus(answer)
              THEN Answer("PUT", table_name, pk, sk, 502, "Leader write failed",
                          answer, sent)
              ELSE Answer("PUT", table_name, pk, sk, 200, "", answer, sent)

\* delete_record (coordinator.py:112-124): no table test, and the status of
\* the leader's answer is not looked at.
DeleteRecordResult(table_name, pk, sk, answer) ==
    LET t == _get_topology(RoutingKey(pk, sk)) IN
    IF ~t.ok
    THEN Answer("DELETE", table_name, pk, sk, 503, "No shards available", -1, <<>>)
    ELSE IF t.leader = NoUrl
    THEN Answer("DELETE", table_name, pk, sk, 503, "No leader", -1, <<>>)
    ELSE LET sent == <<Request(t.leader, "DELETE", _get_storage_key(pk, sk))>> IN
         IF answer = 0
         THEN Answer("DELETE", table_name, pk, sk, 502, "Leader delete failed",
                     answer, sent)
         ELSE Answer("DELETE", table_name, pk, sk, 200, "deleted", answer, sent)

\* read_record (coordinator.py:127-149).  target1 / target2 are the indexes
\* random.choice draws in replicas, answer1 / answer2 what those replicas
\* answer.  The first try catches httpx.HTTPError only: its
\* HTTPException(404) reaches the client, and so does the ValueError of
\* resp.json() on the plain-text body of a 500 (the client gets a 500).  The
\* retry's bare except catches everything, its own HTTPException(404) too.
ReadRecordResult(table_name, pk, sk, target1, answer1, target2, answer2) ==
    LET t == _get_topology(RoutingKey(pk, sk))
        key == _get_storage_key(pk, sk)
    IN
    IF ~t.ok
    THEN Answer("GET", table_name, pk, sk, 503, "No shards available", -1, <<>>)
    ELSE IF t.replicas = <<>>
    THEN Answer("GET", table_name, pk, sk, 503, "No replicas available", -1, <<>>)
    ELSE LET first == <<Request(t.replicas[target1], "GET", key)>>
             both == Append(first, Request(t.replicas[target2], "GET", key))
         IN
         IF answer1.status = 404
         THEN Answer("GET", table_name, pk, sk, 404, "Not found", 404, first)
         ELSE IF answer1.status = 200
         THEN AnswerWith("GET", table_name, pk, sk, 200, "", 200, first,
                         answer1.body)
         ELSE IF answer1.status # 0
         THEN Answer("GET", table_name, pk, sk, 500, "Internal Server Error",
                     answer1.status, first)
         ELSE IF answer2.status = 200
         THEN AnswerWith("GET", table_name, pk, sk, 200, "", 200, both,
                         answer2.body)
         ELSE Answer("GET", table_name, pk, sk, 502, "Replica read failed",
                     answer2.status, both)

\* check_exists (coordinator.py:152-164): one request, its status handed on.
CheckExistsResult(table_name, pk, sk, target, answer) ==
    LET t == _get_topology(RoutingKey(pk, sk)) IN
    IF ~t.ok
    THEN Answer("HEAD", table_name, pk, sk, 503, "No shards available", -1, <<>>)
    ELSE IF t.replicas = <<>>
    THEN Answer("HEAD", table_name, pk, sk, 503, "", -1, <<>>)
    ELSE LET sent == <<Request(t.replicas[target], "HEAD",
                               _get_storage_key(pk, sk))>> IN
         IF answer.status = 0
         THEN Answer("HEAD", table_name, pk, sk, 502, "", 0, sent)
         ELSE Answer("HEAD", table_name, pk, sk, answer.status, "",
                     answer.status, sent)

\* (a faulty variant: the first result, whatever its version)
FirstRecord(valid_results) == valid_results[1]

\* (a faulty variant: on ties the last of the results with the highest version)
LastBestRecord(valid_results) ==
    LET i == CHOOSE i \in 1 .. Len(valid_results) :
                /\ \A j \in 1 .. Len(valid_results) :
                      valid_results[j].version <= valid_results[i].version
                /\ \A j \in i + 1 .. Len(valid_results) :
                      valid_results[j].version < valid_results[i].version
    IN  valid_results[i]

\* max(valid_results, key=version) (coordinator.py:192): the first of the
\* results with the highest version.
BestRecord(valid_results) ==
    LET i == CHOOSE i \in 1 .. Len(valid_results) :
                /\ \A j \in 1 .. Len(valid_results) :
                      valid_results[j].version <= valid_results[i].version
                /\ \A j \in 1 .. i - 1 :
                      valid_results[j].version < valid_results[i].version
    IN  valid_results[i]

RECURSIVE ValidResults(_)
ValidResults(answers) ==
    IF answers = <<>> THEN <<>>
    ELSE (IF Head(answers).status = 200 THEN <<Head(answers).body>> ELSE <<>>)
            \o ValidResults(Tail(answers))

\* The lists random.sample(replicas, R) can give: R different positions.
Samples(replicas, R) ==
    {s \in [1 .. R -> 1 .. Len(replicas)] :
        \A i, j \in 1 .. R : i # j => s[i] # s[j]}

\* read_quorum (coordinator.py:167-199).  sample is the list of positions
\* random.sample drew, answers[i] what replica sample[i] answered.
ReadQuorumResult(table_name, pk, sk, R, sample, answers) ==
    LET t == _get_topology(RoutingKey(pk, sk))
        key == _get_storage_key(pk, sk)
        answer ==
            IF ~t.ok
            THEN Answer("QUORUM", table_name, pk, sk, 503, "No shards available",
                        -1, <<>>)
            ELSE IF Len(t.replicas) < R
            THEN Answer("QUORUM", table_name, pk, sk, 400, "Not enough replicas",
                        -1, <<>>)
            ELSE LET sent == [i \in 1 .. R |->
                                 Request(t.replicas[sample[i]], "GET", key)]
                     valid_results == ValidResults(answers)
                 IN
                 IF valid_results = <<>>
                 THEN Answer("QUORUM", table_name, pk, sk, 404, "Quorum failed",
                             -1, sent)
                 ELSE AnswerWith("QUORUM", table_name, pk, sk, 200, "quorum_met",
                                 200, sent, BestRecord(valid_results))
    IN  [answer EXCEPT !.R = R]

\* -------------------------------------------------------- coordinator: Init
NoRegistration == [shard_id |-> "", url |-> "", role |-> "", times |-> 0]

CoordInit ==
    /\ SHARD_TOPOLOGY = [s \in {} |-> [leader |-> NoUrl, followers |-> <<>>]]
    /\ ring = {}
    /\ TABLE_SCHEMAS = {}
    /\ c_last = NoAnswer
    /\ reg_last = NoRegistration
    /\ placed = {}
    /\ responses = <<>>

\* ----------------------------------------------------- coordinator: actions
\* POST /shards/register (coordinator.py:67-81)
register_shard(shard_id, url, role) ==
    /\ SHARD_TOPOLOGY' = RegisterTopology(SHARD_TOPOLOGY, shard_id, url, role)
    /\ ring' = RegisterRing(ring, SHARD_TOPOLOGY, shard_id)
    /\ reg_last' =
          [shard_id |-> shard_id, url |-> url, role |-> role,
           times |-> IF /\ reg_last.shard_id = shard_id /\ reg_last.url = url
                        /\ reg_last.role = role
                     THEN 2 ELSE 1]
    /\ c_last' = NoAnswer
    /\ responses' = <<>>
    /\ UNCHANGED <<TABLE_SCHEMAS, placed>>

\* POST /tables (coordinator.py:83-86)
create_table(name) ==
    /\ TABLE_SCHEMAS' = TABLE_SCHEMAS \cup {name}
    /\ c_last' = NoAnswer
    /\ reg_last' = NoRegistration
    /\ responses' = <<>>
    /\ UNCHANGED <<SHARD_TOPOLOGY, ring, placed>>

\* POST /tables/{table_name}/records (coordinator.py:91-109).  A record the
\* leader took (2xx) is stored on the resolved shard group.
write_record(table_name, pk, sk, answer) ==
    LET result == WriteRecordResult(table_name, pk, sk, answer)
        record == [pk |-> pk, sk |-> sk,
                   shard_id |-> _get_topology(RoutingKey(pk, sk)).shard_id,
                   nodes |-> ring]
    IN  /\ c_last' = result
        /\ IF result.sent # <<>> /\ ~RaisesForStatus(answer) /\ answer # 0
           THEN /\ record \in placed \/ Cardinality(placed) < MaxPlaced
                /\ placed' = placed \cup {record}
           ELSE UNCHANGED placed
        /\ reg_last' = NoRegistration
        /\ responses' = <<>>
        /\ UNCHANGED <<SHARD_TOPOLOGY, ring, TABLE_SCHEMAS>>

\* DELETE /tables/{table_name}/records/{partition_key} (coordinator.py:112-124)
delete_record(table_name, pk, sk, answer) ==
    /\ c_last' = DeleteRecordResult(table_name, pk, sk, answer)
    /\ reg_last' = NoRegistration
    /\ responses' = <<>>
    /\ UNCHANGED <<SHARD_TOPOLOGY, ring, TABLE_SCHEMAS, placed>>

\* GET /tables/{table_name}/records/{partition_key} (coordinator.py:127-149)
read_record(table_name, pk, sk, target1, answer1, target2, answer2) ==
    /\ c_last' = ReadRecordResult(table_name, pk, sk, target1, answer1,
                                  target2, answer2)
    /\ responses' = SubSeq(<<answer1, answer2>>, 1, Len(c_last'.sent))
    /\ reg_last' = NoRegistration
    /\ UNCHANGED <<SHARD_TOPOLOGY, ring, TABLE_SCHEMAS, placed>>

\* HEAD /tables/{table_name}/records/{partition_key} (coordinator.py:152-164)
check_exists(table_name, pk, sk, target, answer) ==
    /\ c_last' = CheckExistsResult(table_name, pk, sk, target, answer)
    /\ responses' = SubSeq(<<answer>>, 1, Len(c_last'.sent))
    /\ reg_last' = NoRegistration
    /\ UNCHANGED <<SHARD_TOPOLOGY, ring, TABLE_SCHEMAS, placed>>

\* GET /tables/{table_name}/records/{partition_key}/quorum
\* (coordinator.py:167-199)
read_quorum(table_name, pk, sk, R, sample, answers) ==
    /\ c_last' = ReadQuorumResult(table_name, pk, sk, R, sample, answers)
    /\ responses' = SubSeq(answers, 1, Len(c_last'.sent))
    /\ reg_last' = NoRegistration
    /\ UNCHANGED <<SHARD_TOPOLOGY, ring, TABLE_SCHEMAS, placed>>

\* The positions random.choice can draw in the replicas of a key (position 1
\* stands in where there is no replica and nothing is drawn).
Draws(pk, sk) ==
    LET n == Len(_get_topology(RoutingKey(pk, sk)).replicas) IN
    1 .. (IF n = 0 THEN 1 ELSE n)

\* The position lists random.sample can draw for R replicas of a key (one
\* stand-in list where there are fewer than R replicas and nothing is drawn).
SampleDraws(pk, sk, R) ==
    LET replicas == _get_topology(RoutingKey(pk, sk)).replicas IN
    IF Len(replicas) < R THEN {[i \in 1 .. R |-> 1]} ELSE Samples(replicas, R)

\* --------------------------------------------- shards and coordinator
VARIABLES
    announced,       \* announced[n]: register_with_coordinator of n has ended
    seen,            \* history: the highest version a single-replica GET
                     \* returned since the last write began and since the
                     \* coordinator started, no write being in flight
    log_resp,        \* the last answer of GET /replication/log of a shard
    batch_hist,      \* history of the whole calls of apply_batch on "F": the
                     \* entries given, how many calls ran, the state before
                     \* the first and after the first
    point_read       \* the GET / HEAD /storage/{key} handler thread of a
                     \* shard: where it is, then what it answered

linkVars == <<announced, seen, log_resp, batch_hist, point_read>>

NoPointRead ==
    [node |-> "", op |-> "", key |-> "", stage |-> "none", status |-> 0,
     body |-> [value |-> "", version |-> 0], off0 |-> 0, overlap |-> FALSE]

NodeState(n) ==
    [file |-> wal_file[n], store |-> DATA_STORE[n], off |-> current_offset[n]]

NoBatchHist ==
    [calls |-> 0, entries |-> <<>>,
     before |-> [file |-> EmptyFile, store |-> EmptyStore, off |-> 0],
     once   |-> [file |-> EmptyFile, store |-> EmptyStore, off |-> 0]]

NoLogResp ==
    [node |-> "", start_offset |-> 0, status |-> 0, logs |-> <<>>,
     inflight |-> FALSE, before |-> EmptyFile]

LinkInit ==
    /\ announced = [n \in Nodes |-> FALSE]
    /\ seen = 0
    /\ log_resp = NoLogResp
    /\ batch_hist = NoBatchHist
    /\ point_read = NoPointRead

vars == <<shardVars, coordVars, linkVars>>

Init == ShardInit /\ CoordInit /\ LinkInit

Next ==
    \/ \E n \in Nodes, key \in Keys, value \in Values :
          write_data(n, key, value) /\ UNCHANGED <<coordVars, linkVars>>
    \/ \E n \in Nodes, key \in Keys : delete_data(n, key) /\ UNCHANGED <<coordVars, linkVars>>
    \/ \E n \in Nodes : AppendWrite(n) /\ UNCHANGED <<coordVars, linkVars>>
    \/ \E n \in Nodes : AppendWriteFail(n) /\ UNCHANGED <<coordVars, linkVars>>
    \/ \E n \in Nodes : AppendApply(n) /\ UNCHANGED <<coordVars, linkVars>>
    \/ \E n \in Nodes : ReplPull(n) /\ UNCHANGED <<coordVars, linkVars>>
    \/ \E n \in Nodes : ReplPullFail(n) /\ UNCHANGED <<coordVars, linkVars>>
    \/ \E n \in Nodes : BatchStep(n) /\ UNCHANGED <<coordVars, linkVars>>
    \/ \E n \in Nodes : BatchClose(n) /\ UNCHANGED <<coordVars, linkVars>>
    \/ \E n \in Nodes : BatchCloseFail(n) /\ UNCHANGED <<coordVars, linkVars>>
    \/ \E n \in Nodes : Crash(n) /\ UNCHANGED <<coordVars, linkVars>>
    \/ \E n \in Nodes : Restart(n) /\ UNCHANGED <<coordVars, linkVars>>

Spec == Init /\ [][Next]_vars

CoordNext ==
    \/ \E shard_id \in ShardIds, url \in Urls, role \in Roles :
          register_shard(shard_id, url, role) /\ UNCHANGED <<shardVars, linkVars>>
    \/ \E name \in CreatedTables : create_table(name) /\ UNCHANGED <<shardVars, linkVars>>
    \/ \E table_name \in Tables, pk \in PartitionKeys, sk \in SortKeys,
          answer \in WriteAnswers :
          write_record(table_name, pk, sk, answer) /\ UNCHANGED <<shardVars, linkVars>>
    \/ \E table_name \in Tables, pk \in PartitionKeys, sk \in SortKeys,
          answer \in WriteAnswers :
          delete_record(table_name, pk, sk, answer) /\ UNCHANGED <<shardVars, linkVars>>

CoordSpec == Init /\ [][CoordNext]_vars

\* The handlers of the coordinator over one shard group, a PUT going to a
\* table that is never created.  A second request is drawn only when the first
\* one failed in transport.
ReadShardIds == {"s1"}
UnknownTables == Tables \ CreatedTables

ReadNext ==
    \/ \E shard_id \in ReadShardIds, url \in Urls, role \in Roles :
          register_shard(shard_id, url, role) /\ UNCHANGED <<shardVars, linkVars>>
    \/ \E name \in CreatedTables : create_table(name) /\ UNCHANGED <<shardVars, linkVars>>
    \/ \E table_name \in UnknownTables, pk \in PartitionKeys, sk \in SortKeys,
          answer \in WriteAnswers :
          write_record(table_name, pk, sk, answer) /\ UNCHANGED <<shardVars, linkVars>>
    \/ \E table_name \in Tables, pk \in PartitionKeys, sk \in SortKeys,
          answer \in WriteAnswers :
          delete_record(table_name, pk, sk, answer) /\ UNCHANGED <<shardVars, linkVars>>
    \/ \E table_name \in Tables, pk \in PartitionKeys, sk \in SortKeys :
          \E target1 \in Draws(pk, sk), answer1 \in ChoiceAnswers :
             \E target2 \in (IF answer1.status = 0 THEN Draws(pk, sk) ELSE {target1}),
                answer2 \in (IF answer1.status = 0 THEN ChoiceAnswers ELSE {answer1}) :
                /\ read_record(table_name, pk, sk, target1, answer1, target2, answer2)
                /\ UNCHANGED <<shardVars, linkVars>>
    \/ \E table_name \in Tables, pk \in PartitionKeys, sk \in SortKeys :
          \E target \in Draws(pk, sk), answer \in ChoiceAnswers :
             check_exists(table_name, pk, sk, target, answer) /\ UNCHANGED <<shardVars, linkVars>>
    \/ \E table_name \in Tables, pk \in PartitionKeys, sk \in SortKeys,
          R \in QuorumSizes :
          \E sample \in SampleDraws(pk, sk, R), answers \in [1 .. R -> QuorumAnswers] :
             /\ read_quorum(table_name, pk, sk, R, sample, answers)
             /\ UNCHANGED <<shardVars, linkVars>>

ReadSpec == Init /\ [][ReadNext]_vars

\* ------------------------------------- one shard group behind the coordinator
\* The leader and the follower of Spec announce themselves to the coordinator
\* and answer its reads from their maps; writes reach the leader's handlers.
\* shard.py:17, 21  SHARD_ID, MY_ADDRESS
SHARD_ID == "s1"
MY_ADDRESS == [n \in Nodes |-> IF n = "L" THEN "u1" ELSE "u2"]

NodeAt(url) == CHOOSE n \in Nodes : MY_ADDRESS[n] = url

\* The record the clients of this group work on: partition key "a", no sort
\* key, kept by the shards under the storage key named k1.
ClusterPk == <<"a">>
ClusterKey == "k1"

NoResponse == [status |-> 0, body |-> NoBody]

\* GET /storage/{key} (shard.py:190-196)
read_data(n, key) ==
    IF key \notin DOMAIN DATA_STORE[n]
    THEN [status |-> 404, body |-> NoBody]
    ELSE [status |-> 200,
          body |-> [value |-> DATA_STORE[n][key].val,
                    version |-> DATA_STORE[n][key].ver]]

\* HEAD /storage/{key} (shard.py:208-212)
shard_check_exists(n, key) ==
    [status |-> IF key \notin DOMAIN DATA_STORE[n] THEN 404 ELSE 200,
     body |-> NoBody]

\* What the coordinator gets from the replica at position i of the record's
\* replica list: the handler's answer, or nothing when the request is lost
\* (net = FALSE) or the process is down.
GetFrom(i, net) ==
    LET replicas == _get_topology(RoutingKey(ClusterPk, NoSortKey)).replicas IN
    IF i \in 1 .. Len(replicas) /\ net /\ up[NodeAt(replicas[i])]
    THEN read_data(NodeAt(replicas[i]), ClusterKey)
    ELSE NoResponse

HeadFrom(i, net) ==
    LET replicas == _get_topology(RoutingKey(ClusterPk, NoSortKey)).replicas IN
    IF i \in 1 .. Len(replicas) /\ net /\ up[NodeAt(replicas[i])]
    THEN shard_check_exists(NodeAt(replicas[i]), ClusterKey)
    ELSE NoResponse

\* register_with_coordinator (shard.py:125-152): the thread posts the node's
\* registration until it is answered 200, and ends.
register_with_coordinator(n) ==
    /\ up[n] /\ ~announced[n]
    /\ register_shard(SHARD_ID, MY_ADDRESS[n], ROLE[n])
    /\ announced' = [announced EXCEPT ![n] = TRUE]
    /\ UNCHANGED <<shardVars, seen, log_resp, batch_hist, point_read>>

\* The coordinator process is restarted: its module state is the initial one
\* again (coordinator.py:18-20).
coordinator_restart ==
    /\ SHARD_TOPOLOGY' = [s \in {} |-> [leader |-> NoUrl, followers |-> <<>>]]
    /\ ring' = {}
    /\ TABLE_SCHEMAS' = {}
    /\ c_last' = NoAnswer
    /\ reg_last' = NoRegistration
    /\ responses' = <<>>
    /\ seen' = 0
    /\ UNCHANGED <<placed, shardVars, announced, log_resp, batch_hist,
                   point_read>>

\* A step of a shard: the coordinator keeps its state, and the answer it gave
\* last is no longer the latest event.
ShardStepOnly ==
    /\ c_last' = NoAnswer
    /\ reg_last' = NoRegistration
    /\ responses' = <<>>
    /\ UNCHANGED <<SHARD_TOPOLOGY, ring, TABLE_SCHEMAS, placed, announced,
                   log_resp, batch_hist, point_read>>

\* seen after a single-replica GET: a read made while the leader has a write
\* in flight is left out, the write being neither before nor after it.
SeenAfter(answer) ==
    IF pc["L"] = "idle" /\ answer.status = 200 /\ answer.body.version > seen
    THEN answer.body.version ELSE seen

ClusterNext ==
    \/ \E n \in Nodes : register_with_coordinator(n)
    \/ coordinator_restart
    \/ \E n \in Nodes, value \in Values :
          write_data(n, ClusterKey, value) /\ ShardStepOnly /\ seen' = 0
    \/ \E n \in Nodes : delete_data(n, ClusterKey) /\ ShardStepOnly /\ seen' = 0
    \/ \E n \in Nodes : AppendWrite(n) /\ ShardStepOnly /\ UNCHANGED seen
    \/ \E n \in Nodes : AppendApply(n) /\ ShardStepOnly /\ UNCHANGED seen
    \/ \E n \in Nodes : ReplPull(n) /\ ShardStepOnly /\ UNCHANGED seen
    \/ \E n \in Nodes : BatchStep(n) /\ ShardStepOnly /\ UNCHANGED seen
    \/ \E n \in Nodes : BatchClose(n) /\ ShardStepOnly /\ UNCHANGED seen
    \/ \E target1 \in Draws(ClusterPk, NoSortKey), net1 \in BOOLEAN :
          \E target2 \in (IF GetFrom(target1, net1).status = 0
                          THEN Draws(ClusterPk, NoSortKey) ELSE {target1}),
             net2 \in BOOLEAN :
             /\ read_record("t1", ClusterPk, NoSortKey,
                            target1, GetFrom(target1, net1),
                            target2, GetFrom(target2, net2))
             /\ seen' = SeenAfter(c_last')
             /\ UNCHANGED <<shardVars, announced, log_resp, batch_hist,
                            point_read>>
    \/ \E target \in Draws(ClusterPk, NoSortKey), net \in BOOLEAN :
          /\ check_exists("t1", ClusterPk, NoSortKey, target, HeadFrom(target, net))
          /\ UNCHANGED <<shardVars, linkVars>>
    \/ \E R \in QuorumSizes :
          \E sample \in SampleDraws(ClusterPk, NoSortKey, R),
             nets \in [1 .. R -> BOOLEAN] :
             /\ read_quorum("t1", ClusterPk, NoSortKey, R, sample,
                            [i \in 1 .. R |-> GetFrom(sample[i], nets[i])])
             /\ UNCHANGED <<shardVars, linkVars>>

ClusterSpec == Init /\ [][ClusterNext]_vars

\* ------------------------------------- the replication log and its reader
\* What a reader that takes no lock can find in the WAL file of n.  While an
\* append is between open and the end of flush (shard.py:78-80) the bytes of
\* its line are on their way into the file: the reader finds none of them,
\* some of them, all but the newline, or the whole line.  Otherwise it finds
\* the file as it is (what apply_batch wrote and has not flushed is still in
\* the writer's buffer).
ReadViews(n) ==
    IF pc[n] = "append_write"
    THEN CutShort(wal_file[n], <<cur[n]>>) \cup {WriteLine(wal_file[n], cur[n])}
    ELSE {wal_file[n]}

\* GET /replication/log?start_offset=... (shard.py:214-217): the answer is
\* what read_logs_since returns; an exception it raises is answered 500.
get_replication_log(n, start_offset, view) ==
    /\ up[n]
    /\ view \in ReadViews(n)
    /\ log_resp' =
          [node         |-> n,
           start_offset |-> start_offset,
           status       |-> IF read_logs_since_ok(view) THEN 200 ELSE 500,
           logs         |-> IF read_logs_since_ok(view)
                            THEN read_logs_since(view, start_offset) ELSE <<>>,
           inflight     |-> pc[n] = "append_write",
           before       |-> wal_file[n]]
    /\ UNCHANGED <<shardVars, coordVars, announced, seen, batch_hist,
                   point_read>>

\* One shard group without crash and without refused write, and readers of
\* the replication log.
LogNext ==
    \/ \E n \in Nodes, key \in Keys, value \in Values :
          write_data(n, key, value) /\ UNCHANGED <<coordVars, linkVars>>
    \/ \E n \in Nodes, key \in Keys :
          delete_data(n, key) /\ UNCHANGED <<coordVars, linkVars>>
    \/ \E n \in Nodes : AppendWrite(n) /\ UNCHANGED <<coordVars, linkVars>>
    \/ \E n \in Nodes : AppendApply(n) /\ UNCHANGED <<coordVars, linkVars>>
    \/ \E n \in Nodes : ReplPull(n) /\ UNCHANGED <<coordVars, linkVars>>
    \/ \E n \in Nodes : BatchStep(n) /\ UNCHANGED <<coordVars, linkVars>>
    \/ \E n \in Nodes : BatchClose(n) /\ UNCHANGED <<coordVars, linkVars>>
    \/ \E n \in Nodes, start_offset \in 0 .. MaxOffset :
          \E view \in ReadViews(n) : get_replication_log(n, start_offset, view)

LogSpec == Init /\ [][LogNext]_vars

\* ------------------------------------ point reads beside the WAL writers
\* The handlers are plain def functions: each request runs on a thread of the
\* pool, beside the thread that holds wal.lock, and takes no lock itself.
\* GET /storage/{key}, shard.py:192-193: the membership test.
ReadDataTest(n, key) ==
    /\ up[n] /\ point_read.stage # "found"
    /\ point_read' =
          IF key \notin DOMAIN DATA_STORE[n]
          THEN [NoPointRead EXCEPT !.node = n, !.op = "GET", !.key = key,
                                   !.stage = "done", !.status = 404,
                                   !.overlap = ~LockFree(n)]
          ELSE [NoPointRead EXCEPT !.node = n, !.op = "GET", !.key = key,
                                   !.stage = "found",
                                   !.off0 = current_offset[n],
                                   !.overlap = ~LockFree(n)]
    /\ UNCHANGED <<shardVars, coordVars, announced, seen, log_resp, batch_hist>>

\* GET /storage/{key}, shard.py:195-196: data = DATA_STORE[key] and the
\* answer built from that one dict.  A key that is no longer in the map makes
\* the subscript raise KeyError, which is answered 500.
ReadDataFetch ==
    /\ point_read.stage = "found"
    /\ LET n == point_read.node
           key == point_read.key
           raced == \/ point_read.overlap \/ ~LockFree(n)
                    \/ current_offset[n] # point_read.off0
       IN  /\ up[n]
           /\ point_read' =
                 IF key \notin DOMAIN DATA_STORE[n]
                 THEN [point_read EXCEPT !.stage = "done", !.status = 500,
                                         !.overlap = raced]
                 ELSE [point_read EXCEPT
                          !.stage = "done", !.status = 200,
                          !.body = [value |-> DATA_STORE[n][key].val,
                                    version |-> DATA_STORE[n][key].ver],
                          !.overlap = raced]
    /\ UNCHANGED <<shardVars, coordVars, announced, seen, log_resp, batch_hist>>

\* HEAD /storage/{key} (shard.py:207-212): one membership test.
HeadData(n, key) ==
    /\ up[n] /\ point_read.stage # "found"
    /\ point_read' =
          [NoPointRead EXCEPT !.node = n, !.op = "HEAD", !.key = key,
                              !.stage = "done",
                              !.status = shard_check_exists(n, key).status,
                              !.overlap = ~LockFree(n)]
    /\ UNCHANGED <<shardVars, coordVars, announced, seen, log_resp, batch_hist>>

\* One shard group without crash and without refused write, and a reader.
PointReadNext ==
    \/ \E n \in Nodes, key \in Keys, value \in Values :
          write_data(n, key, value) /\ UNCHANGED <<coordVars, linkVars>>
    \/ \E n \in Nodes, key \in Keys :
          delete_data(n, key) /\ UNCHANGED <<coordVars, linkVars>>
    \/ \E n \in Nodes : AppendWrite(n) /\ UNCHANGED <<coordVars, linkVars>>
    \/ \E n \in Nodes : AppendApply(n) /\ UNCHANGED <<coordVars, linkVars>>
    \/ \E n \in Nodes : ReplPull(n) /\ UNCHANGED <<coordVars, linkVars>>
    \/ \E n \in Nodes : BatchStep(n) /\ UNCHANGED <<coordVars, linkVars>>
    \/ \E n \in Nodes : BatchClose(n) /\ UNCHANGED <<coordVars, linkVars>>
    \/ \E n \in Nodes, key \in Keys : ReadDataTest(n, key)
    \/ ReadDataFetch
    \/ \E n \in Nodes, key \in Keys : HeadData(n, key)

PointReadSpec == Init /\ [][PointReadNext]_vars

\* ----------------------------------------- apply_batch as a whole call
MaxBatchOffset == 3    \* the highest offset of an entry in a batch

\* The entries that can carry the offset off (shard.py:69-75).
EntriesAt(off) ==
    {MkEntry(off, "PUT", k, v) : k \in Keys, v \in Values}
        \cup {MkEntry(off, "DELETE", k, None) : k \in Keys}

\* The batches GET /replication/log can answer with: entries in ascending
\* offset order, offsets between lo and hi.
RECURSIVE AscendingBatches(_, _)
AscendingBatches(lo, hi) ==
    IF lo > hi THEN {<<>>}
    ELSE AscendingBatches(lo + 1, hi)
            \cup {<<e>> \o b : e \in EntriesAt(lo), b \in AscendingBatches(lo + 1, hi)}

\* The logs of k entries with the offsets 1 .. k.
RECURSIVE WholeLogs(_)
WholeLogs(k) ==
    IF k = 0 THEN {<<>>}
    ELSE {Append(es, e) : es \in WholeLogs(k - 1), e \in EntriesAt(k)}

\* The WAL files a follower can start a call with: a log of whole lines,
\* and the same with a line cut short after it.
FollowerFiles ==
    UNION { UNION { {WriteLines(EmptyFile, es),
                     [WriteLines(EmptyFile, es) EXCEPT !.tail = <<TornText>>]}
                  : es \in WholeLogs(k) }
          : k \in 0 .. MaxOffset }

\* A follower that has recovered from its file, and a batch it is given.
BatchInit ==
    /\ up = [n \in Nodes |-> TRUE]
    /\ \E f \in FollowerFiles :
          /\ wal_file = [n \in Nodes |-> IF n = "F" THEN f ELSE EmptyFile]
          /\ current_offset = [n \in Nodes |-> IF n = "F" THEN recover(f).off ELSE 0]
          /\ DATA_STORE = [n \in Nodes |->
                              IF n = "F" THEN recover(f).store ELSE EmptyStore]
          /\ \E b \in AscendingBatches(1, MaxBatchOffset) :
                batch_hist = [NoBatchHist EXCEPT
                                 !.entries = b,
                                 !.before = [file  |-> f,
                                             store |-> recover(f).store,
                                             off   |-> recover(f).off]]
    /\ pc = [n \in Nodes |-> "idle"]
    /\ cur = [n \in Nodes |-> NullEntry]
    /\ batch = [n \in Nodes |-> <<>>]
    /\ wbuf = [n \in Nodes |-> <<>>]
    /\ resp = NoResp
    /\ acked = [n \in Nodes |-> {}]
    /\ crashes = 0
    /\ fails = 0
    /\ CoordInit
    /\ announced = [n \in Nodes |-> FALSE]
    /\ seen = 0
    /\ log_resp = NoLogResp
    /\ point_read = NoPointRead

\* wal.apply_batch(entries) (shard.py:110-119, called at 162) from the lock
\* to its release, with the entries of batch_hist.
ApplyBatch(n) ==
    /\ up[n] /\ LockFree(n)
    /\ batch_hist.calls < 2
    /\ LET st == apply_batch(NodeState(n), batch_hist.entries) IN
       /\ wal_file' = [wal_file EXCEPT ![n] = st.file]
       /\ DATA_STORE' = [DATA_STORE EXCEPT ![n] = st.store]
       /\ current_offset' = [current_offset EXCEPT ![n] = st.off]
       /\ batch_hist' = [batch_hist EXCEPT
                            !.calls = batch_hist.calls + 1,
                            !.once = IF batch_hist.calls = 0 THEN st
                                     ELSE batch_hist.once]
    /\ UNCHANGED <<up, pc, cur, batch, wbuf, resp, acked, crashes, fails,
                   coordVars, announced, seen, log_resp, point_read>>

BatchNext == \E n \in {"F"} : ApplyBatch(n)

BatchSpec == BatchInit /\ [][BatchNext]_vars

\* ===================================================== claims: the shard
\* The entries a reader gets back from a WAL file, in file order: the lines
\* that parse.
RECURSIVE ParsedEntries(_)
ParsedEntries(lines) ==
    IF lines = <<>> THEN <<>>
    ELSE (IF json_loads_ok(Head(lines)) THEN <<json_loads(Head(lines))>> ELSE <<>>)
            \o ParsedEntries(Tail(lines))

WalEntries(n) == ParsedEntries(FileLines(wal_file[n]))

IsPrefix(s, t) == Len(s) <= Len(t) /\ \A i \in 1 .. Len(s) : s[i] = t[i]

\* C1: on every shard the offsets of the entries in the WAL file, in file
\* order, are 1, 2, 3, ...: ascending, no gap, the first one 1.
C1_WalOffsetsGapFree ==
    \A n \in Nodes :
        \A i \in 1 .. Len(WalEntries(n)) : WalEntries(n)[i].offset = i

\* C2: outside append / apply_batch the in-memory map is the replay of the
\* WAL file: k is present with version v exactly when the last WAL entry for
\* k is a PUT with offset v (and holds its value), absent otherwise.  (Runs
\* with a refused disk write are left aside.)
C2_MapEqualsReplay ==
    \A n \in Nodes : (fails = 0 /\ up[n] /\ pc[n] = "idle") =>
        \A k \in Keys :
            LET es == WalEntries(n)
                ix == {i \in 1 .. Len(es) : es[i].key = k}
                last == CHOOSE i \in ix : \A j \in ix : j <= i
            IN  IF ix = {} \/ es[last].op = "DELETE"
                THEN k \notin DOMAIN DATA_STORE[n]
                ELSE /\ k \in DOMAIN DATA_STORE[n]
                     /\ DATA_STORE[n][k] =
                            [val |-> es[last].value, ver |-> es[last].offset]

\* C3: durability.  Whenever no append is in flight, what recover() would
\* rebuild from the WAL file reflects every acknowledged entry: each is among
\* the entries recover() applies and current_offset is not below it.  (Runs
\* with a refused disk write are left aside: the claim is about crashes.)
C3_AckedSurviveRestart ==
    \A n \in Nodes : (fails = 0 /\ pc[n] = "idle") =>
        \A e \in acked[n] :
            /\ \E i \in 1 .. Len(WalEntries(n)) : WalEntries(n)[i] = e
            /\ recover(wal_file[n]).off >= e.offset

\* C4: the entries of the follower's WAL are a prefix of the entries of its
\* leader's WAL, and the follower's current_offset is not above the leader's.
\* (Runs with a refused disk write are left aside.)
C4_FollowerPrefix ==
    fails = 0 =>
        /\ IsPrefix(WalEntries("F"), WalEntries("L"))
        /\ (up["F"] /\ up["L"]) => current_offset["F"] <= current_offset["L"]

Converged ==
    /\ current_offset["F"] = current_offset["L"]
    /\ WalEntries("F") = WalEntries("L")
    /\ DATA_STORE["F"] = DATA_STORE["L"]

\* Nothing is in flight on either node and the leader's replication endpoint
\* answers the follower's pull with an empty list: unless a new write comes,
\* no later tick changes the follower.
Quiet ==
    /\ up["L"] /\ up["F"] /\ pc["L"] = "idle" /\ pc["F"] = "idle"
    /\ read_logs_since_ok(wal_file["L"])
    /\ read_logs_since(wal_file["L"], current_offset["F"]) = <<>>

\* C5: when the leader gets no more writes and the follower's pulls succeed,
\* the follower ends up with the leader's current_offset, WAL and map.  As a
\* property of states: once the pulls succeed and bring nothing new, the
\* follower already equals the leader (it will never change again).
C5_QuietIsConverged == Quiet => Converged

\* C6: a PUT or DELETE sent to a shard that is not the leader is answered 400
\* and changes neither its WAL file, nor current_offset, nor its map; and the
\* WAL file of such a shard changes only while apply_batch is running.
C6_RoleGating ==
    [][\A n \in Nodes : ROLE[n] # "leader" =>
          /\ (wal_file'[n] # wal_file[n] => pc[n] = "batch")
          /\ \A key \in Keys :
                (\/ delete_data(n, key)
                 \/ \E value \in Values : write_data(n, key, value))
                => /\ resp'.status = 400 /\ resp'.node = n
                   /\ wal_file'[n] = wal_file[n]
                   /\ current_offset'[n] = current_offset[n]
                   /\ DATA_STORE'[n] = DATA_STORE[n]]_vars

\* C6 witness: the follower answered 400 to a write, and its WAL holds
\* entries that apply_batch put there.
C6_Witness ==
    /\ resp.node = "F" /\ resp.status = 400
    /\ Len(WalEntries("F")) > 0

\* =============================================== claims: the coordinator
\* C7 (as claimed): any two stored records with the same partition key are
\* on the same shard group, whatever was registered between the two writes.
C7_CoLocationAlways ==
    \A r1, r2 \in placed : r1.pk = r2.pk => r1.shard_id = r2.shard_id

\* C7 (amended): any two stored records with the same partition key, written
\* while the ring had the same nodes, are on the same shard group, whatever
\* their sort keys.
C7_CoLocationFixedRing ==
    \A r1, r2 \in placed :
        (r1.pk = r2.pk /\ r1.nodes = r2.nodes) => r1.shard_id = r2.shard_id

\* C7 witness: with two groups on the ring, a record without and a record
\* with a sort key, same partition key, were stored.
C7_Witness ==
    \E r1, r2 \in placed :
        /\ r1.pk = r2.pk /\ r1.sk = NoSortKey /\ r2.sk # NoSortKey
        /\ r1.nodes = ShardIds /\ r2.nodes = ShardIds

\* C8: a register(shard_id, url, role) that directly follows the same
\* register(shard_id, url, role) changes neither the topology map nor the ring.
C8_RegisterIdempotent ==
    [][\A shard_id \in ShardIds, url \in Urls, role \in Roles :
          ( /\ reg_last.shard_id = shard_id /\ reg_last.url = url
            /\ reg_last.role = role
            /\ register_shard(shard_id, url, role) )
          => (SHARD_TOPOLOGY' = SHARD_TOPOLOGY /\ ring' = ring)]_vars

\* C8 witness: a follower registration was made twice in a row.
C8_Witness ==
    /\ reg_last.times = 2 /\ reg_last.role = "follower"
    /\ InSeq(reg_last.url, SHARD_TOPOLOGY[reg_last.shard_id].followers)

\* C9: a PUT for a table that is not in the registry is answered 404 and
\* forwards nothing, whatever the topology; a DELETE, GET, HEAD or quorum read
\* for such a table is never answered "Table unknown" and is forwarded like
\* any other: the DELETE when the group has a leader, the GET and the HEAD
\* when it has a replica, the quorum read unless it is refused with 503 or 400.
C9_TableGating ==
    /\ (c_last.op = "PUT" /\ c_last.table \notin TABLE_SCHEMAS)
          => (c_last.status = 404 /\ c_last.sent = <<>>)
    /\ ( /\ c_last.op \in {"DELETE", "GET", "HEAD", "QUORUM"}
         /\ c_last.table \notin TABLE_SCHEMAS )
          => LET t == _get_topology(c_last.pk) IN
             /\ c_last.detail # "Table unknown"
             /\ (c_last.op = "DELETE" /\ t.leader # NoUrl) => c_last.sent # <<>>
             /\ (c_last.op \in {"GET", "HEAD"} /\ t.replicas # <<>>)
                   => c_last.sent # <<>>
             /\ (c_last.op = "QUORUM" /\ c_last.status \notin {503, 400})
                   => c_last.sent # <<>>

\* C9 witness: a PUT for an unknown table was answered 404 although another
\* table exists and the key's group has a leader.
C9_Witness ==
    /\ c_last.op = "PUT" /\ c_last.status = 404 /\ c_last.sent = <<>>
    /\ c_last.table \notin TABLE_SCHEMAS /\ TABLE_SCHEMAS # {}
    /\ _get_topology(c_last.pk).ok /\ _get_topology(c_last.pk).leader # NoUrl

\* C10: a PUT or DELETE whose group has no leader is answered 503 and forwards
\* nothing; one whose forward fails in transport, or is answered with a
\* status that is not 2xx, is answered 502.
C10_WriteDispatchFailures ==
    c_last.op \in {"PUT", "DELETE"} =>
        /\ ( /\ c_last.op = "PUT" => c_last.table \in TABLE_SCHEMAS
             /\ _get_topology(c_last.pk).ok
             /\ _get_topology(c_last.pk).leader = NoUrl )
              => (c_last.status = 503 /\ c_last.sent = <<>>)
        /\ ( /\ c_last.sent # <<>>
             /\ (c_last.upstream = 0 \/ RaisesForStatus(c_last.upstream)) )
              => c_last.status = 502

\* C11: a single-replica GET one of whose replica requests (the first or the
\* retry) is answered 404 is answered 404 to the client, never 502, and that
\* request is the last one made.
C11_NotFoundSurfaces ==
    (c_last.op = "GET" /\ c_last.sent # <<>> /\ c_last.upstream = 404)
        => c_last.status = 404

\* C12: a single-replica GET or HEAD makes at most two replica requests, and
\* one whose last replica request failed in transport has made two of them
\* (the failed first one was retried once) and is answered 502.
C12_RetryOnce ==
    (c_last.op \in {"GET", "HEAD"} /\ c_last.sent # <<>>)
        => /\ Len(c_last.sent) <= 2
           /\ c_last.upstream = 0
                 => (Len(c_last.sent) = 2 /\ c_last.status = 502)

\* The positions of the 200 responses among the responses of the last read.
Found == {i \in 1 .. Len(responses) : responses[i].status = 200}

\* C13: a quorum read that succeeds returns the highest version among the 200
\* responses of the sampled replicas, with the value of the first response, in
\* sample order, that carries that version, and says quorum_met.
C13_QuorumLastWriterWins ==
    (c_last.op = "QUORUM" /\ c_last.status = 200)
        => /\ Found # {}
           /\ \A i \in Found : responses[i].body.version <= c_last.body.version
           /\ \E i \in Found :
                 /\ responses[i].body = c_last.body
                 /\ \A j \in Found :
                       j < i => responses[j].body.version < c_last.body.version
           /\ c_last.detail = "quorum_met"

\* C13 witness: a quorum read over two replicas that answered 200 with the
\* same version and different values succeeded.
C13_Witness ==
    /\ c_last.op = "QUORUM" /\ c_last.status = 200
    /\ Found = {1, 2}
    /\ responses[1].body.version = responses[2].body.version
    /\ responses[1].body.value # responses[2].body.value

\* The members of a replica list, and the replicas a request list went to.
Members(replicas) == {replicas[i] : i \in 1 .. Len(replicas)}
Contacted(sent) == {sent[i].url : i \in 1 .. Len(sent)}

\* C14: a quorum read for R replicas on a resolved group is answered 400 with
\* no replica contacted when the group has fewer than R replicas; otherwise
\* it makes R requests, to R replicas, and is answered 200 when one of them
\* answered 200 and 404 when none did.
C14_QuorumOutcome ==
    (c_last.op = "QUORUM" /\ _get_topology(c_last.pk).ok)
        => IF Cardinality(Members(_get_topology(c_last.pk).replicas)) < c_last.R
           THEN c_last.status = 400 /\ c_last.sent = <<>>
           ELSE /\ Len(c_last.sent) = c_last.R
                /\ Cardinality(Contacted(c_last.sent)) = c_last.R
                /\ c_last.status = (IF Found # {} THEN 200 ELSE 404)

\* C15 (as claimed): a successful quorum read, for any R, returns a version
\* that is at least the version any successful single-replica read returned
\* since the last write to the key and the last start of the coordinator (no
\* write being in flight at that read).
C15_QuorumMonotone ==
    (c_last.op = "QUORUM" /\ c_last.status = 200) => c_last.body.version >= seen

\* C15 (amended): a successful quorum read that asked every replica of the
\* group (R is the size of the replica list) and got an answer from each
\* returns a version that is at least the version any successful
\* single-replica read returned since the last write to the key and the last
\* start of the coordinator (no write being in flight at that read).
C15_FullQuorumMonotone ==
    ( /\ c_last.op = "QUORUM" /\ c_last.status = 200
      /\ c_last.R = Len(_get_topology(c_last.pk).replicas)
      /\ \A i \in 1 .. Len(responses) : responses[i].status # 0 )
        => c_last.body.version >= seen

\* C15 witness: a quorum read over the leader and a follower that is behind
\* returned the leader's version after a single-replica read had returned it.
C15_Witness ==
    /\ c_last.op = "QUORUM" /\ c_last.status = 200 /\ c_last.R = 2
    /\ Found = {1, 2}
    /\ responses[1].body.version < responses[2].body.version
    /\ seen = responses[2].body.version

\* The leader's last acknowledged entry.
LastAcked ==
    CHOOSE e \in acked["L"] : \A d \in acked["L"] : d.offset <= e.offset

\* A GET or HEAD of the record was just answered, every replica request of it
\* was answered, and the leader has acknowledged a write and has none in
\* flight.
ReadAfterAck ==
    /\ c_last.op \in {"GET", "HEAD"} /\ c_last.sent # <<>>
    /\ \A i \in 1 .. Len(responses) : responses[i].status # 0
    /\ pc["L"] = "idle" /\ acked["L"] # {}

\* What the lifecycle promises for such a read: after a PUT, 200 (and for a
\* GET the written value and its version); after a DELETE, 404 for a GET.
ReadsLastAcked ==
    /\ LastAcked.op = "PUT"
          => /\ c_last.status = 200
             /\ c_last.op = "GET"
                   => c_last.body = [value |-> LastAcked.value,
                                     version |-> LastAcked.offset]
    /\ (LastAcked.op = "DELETE" /\ c_last.op = "GET") => c_last.status = 404

\* C16 (as claimed): a HEAD or GET that follows an acknowledged PUT is
\* answered 200 with the written value, and a GET that follows an
\* acknowledged DELETE is answered 404, whichever replica is picked.
C16_ReadYourWrites == ReadAfterAck => ReadsLastAcked

\* C16 (amended): the same, when the replica picked is the leader or a
\* follower that has applied the leader's last acknowledged entry.
C16_ReadYourWritesApplied ==
    ( /\ ReadAfterAck
      /\ \A i \in 1 .. Len(c_last.sent) :
            current_offset[NodeAt(c_last.sent[i].url)] >= LastAcked.offset )
        => ReadsLastAcked

\* C16 witness: a GET that the follower served after it had applied an
\* acknowledged DELETE of the record was answered 404.
C16_Witness ==
    /\ ReadAfterAck /\ c_last.op = "GET" /\ c_last.status = 404
    /\ LastAcked.op = "DELETE"
    /\ NodeAt(c_last.sent[1].url) = "F"
    /\ current_offset["F"] >= LastAcked.offset

\* C17: once the registrar threads of the running shards have ended (nothing
\* more will be announced unless a shard is restarted), a GET of a record the
\* leader holds is not refused for want of a topology, whether or not the
\* coordinator was restarted in between: the record is readable again.
C17_ReadableAfterRestart ==
    ( /\ c_last.op = "GET"
      /\ \A n \in Nodes : announced[n]
      /\ ClusterKey \in DOMAIN DATA_STORE["L"] )
        => c_last.status # 503

\* C18: in a run without crash and without refused disk write, the appends
\* of the concurrent PUT and DELETE handlers of a node are totally ordered:
\* append and apply_batch never hold the WAL together; the lines of the WAL
\* file are whole entries whose offsets, in file order, are 1, 2, 3, ...
\* (distinct and ascending), one per append that has written; every
\* acknowledged entry is the line at its offset; and once the handlers have
\* all returned, the map is what applying the lines in offset order gives.
C18_TotalOrder ==
    (crashes = 0 /\ fails = 0) =>
        \A n \in Nodes :
            /\ ~(cur[n] # NullEntry /\ (batch[n] # <<>> \/ wbuf[n] # <<>>))
            /\ (ROLE[n] = "leader") =>
                /\ read_logs_since_ok(wal_file[n])
                /\ \A i \in 1 .. Len(WalEntries(n)) : WalEntries(n)[i].offset = i
                /\ Len(WalEntries(n)) =
                      (IF pc[n] = "append_write" THEN current_offset[n] - 1
                       ELSE current_offset[n])
                /\ \A e \in acked[n] :
                      /\ e.offset <= Len(WalEntries(n))
                      /\ WalEntries(n)[e.offset] = e
                /\ (pc[n] = "idle") =>
                      DATA_STORE[n] = recover(wal_file[n]).store

C18_Witness ==
    /\ crashes = 0 /\ fails = 0
    /\ pc["L"] = "append_apply"
    /\ Len(WalEntries("L")) = 2
    /\ WalEntries("L")[1].op = "PUT"
    /\ WalEntries("L")[2].op = "DELETE"
    /\ WalEntries("L")[1].key = WalEntries("L")[2].key
    /\ WalEntries("L")[1] \in acked["L"]
    /\ pc["F"] = "batch"

\* C19: a GET /replication/log that runs while an append is in flight on the
\* same node, the WAL file being whole when the read begins, is answered 200
\* with whole entries, all of offset above start_offset, in ascending offset
\* order, among them every entry above start_offset the file held when the
\* read began.
C19_ReadToleratesAppend ==
    (log_resp.node # "" /\ log_resp.inflight) =>
        LET logs == log_resp.logs
            had  == ParsedEntries(FileLines(log_resp.before))
        IN  /\ log_resp.status = 200
            /\ \A i \in 1 .. Len(logs) : logs[i].offset > log_resp.start_offset
            /\ \A i \in 1 .. Len(logs) - 1 : logs[i].offset < logs[i + 1].offset
            /\ \A j \in 1 .. Len(had) :
                  had[j].offset > log_resp.start_offset => InSeq(had[j], logs)

\* C20: apply_batch given a batch in ascending offset order: the entries of
\* offset at most current_offset change neither the WAL file nor the map nor
\* current_offset (the call leaves what it leaves without them, and leaves
\* everything as it was when all of them are such), and a second call with
\* the same batch leaves the file, the map and current_offset as the first.
C20_ApplyBatchIdempotent ==
    LET h == batch_hist
        fresh == SelectSeq(h.entries, LAMBDA e : e.offset > h.before.off)
    IN  /\ h.calls >= 1 =>
              /\ h.once = apply_batch(h.before, fresh)
              /\ fresh = <<>> => h.once = h.before
        /\ h.calls = 1 => NodeState("F") = h.once
        /\ h.calls = 2 => NodeState("F") = h.once

C20_Witness ==
    /\ batch_hist.calls = 2
    /\ batch_hist.before.off = 2
    /\ Len(batch_hist.entries) = 3
    /\ batch_hist.once.off = 3
    /\ NodeState("F") = batch_hist.once
    /\ batch_hist.once # batch_hist.before

\* C21: whatever was registered, the replica list _get_topology resolves for
\* a partition key holds no endpoint twice, and the requests of one quorum
\* read go to pairwise different endpoints.
C21_QuorumDistinctReplicas ==
    /\ \A pk \in PartitionKeys :
          LET replicas == _get_topology(pk).replicas IN
          \A i, j \in 1 .. Len(replicas) : replicas[i] = replicas[j] => i = j
    /\ c_last.op = "QUORUM" =>
          \A i, j \in 1 .. Len(c_last.sent) :
              c_last.sent[i].url = c_last.sent[j].url => i = j

\* C22: the ring nodes are the shard_ids of the topology map and no follower
\* list holds an endpoint twice; and no step of the coordinator's handlers
\* removes a shard group, a ring node or a follower endpoint, or changes the
\* order of the followers already listed, or leaves a group that had a leader
\* without one.
TopologyWellFormed(topology, nodes) ==
    /\ nodes = DOMAIN topology
    /\ \A s \in DOMAIN topology :
          \A i, j \in 1 .. Len(topology[s].followers) :
              topology[s].followers[i] = topology[s].followers[j] => i = j

C22_TopologyOnlyGrows ==
    /\ TopologyWellFormed(SHARD_TOPOLOGY, ring)
    /\ [][ /\ TopologyWellFormed(SHARD_TOPOLOGY', ring')
           /\ ring \subseteq ring'
           /\ DOMAIN SHARD_TOPOLOGY \subseteq DOMAIN SHARD_TOPOLOGY'
           /\ \A s \in DOMAIN SHARD_TOPOLOGY :
                 /\ IsPrefix(SHARD_TOPOLOGY[s].followers,
                             SHARD_TOPOLOGY'[s].followers)
                 /\ SHARD_TOPOLOGY[s].leader # NoUrl
                       => SHARD_TOPOLOGY'[s].leader # NoUrl ]_vars

\* C22 witness: a group with two followers whose leader was registered anew
\* with another url, beside a second group.
C22_Witness ==
    /\ reg_last.role = "leader" /\ reg_last.shard_id = "s1" /\ reg_last.url = "u2"
    /\ ring = {"s1", "s2"}
    /\ SHARD_TOPOLOGY["s1"] = [leader |-> "u2", followers |-> <<"u2", "u1">>]
    /\ SHARD_TOPOLOGY["s2"] = [leader |-> NoUrl, followers |-> <<"u1">>]

\* C23: an append whose disk write fails (the handler answers 500) leaves
\* current_offset, the WAL file and the map as they were when the call began:
\* current_offset is again the offset before the one the call took, and the
\* file and the map, which the call had not touched before the write, are as
\* before the write.
C23_FailedAppendChangesNothing ==
    [][\A n \in Nodes :
          ( /\ pc[n] = "append_write" /\ pc'[n] = "idle" /\ up'[n]
            /\ resp'.node = n /\ resp'.status = 500 )
          => /\ current_offset'[n] = cur[n].offset - 1
             /\ wal_file'[n] = wal_file[n]
             /\ DATA_STORE'[n] = DATA_STORE[n]]_vars

\* C24: a GET or HEAD /storage/{key} handler that ran beside an append or an
\* apply_batch on its node answers 404 or 200, never another status; and a
\* GET answered 200 carries the value and the offset of one PUT entry for the
\* key that the node has written to its WAL (into the file, or into the
\* buffer apply_batch writes through).
C24_PointReadsSafe ==
    (point_read.stage = "done" /\ point_read.overlap) =>
        /\ point_read.status \in {200, 404}
        /\ (point_read.op = "GET" /\ point_read.status = 200) =>
              LET n == point_read.node
                  written == WalEntries(n) \o wbuf[n]
              IN  \E i \in 1 .. Len(written) :
                     /\ written[i].op = "PUT"
                     /\ written[i].key = point_read.key
                     /\ written[i].value = point_read.body.value
                     /\ written[i].offset = point_read.body.version

====
